---- MODULE Spec2Model ----
(***************************************************************************)
(* Royal Guard Activity API (src/activity_api.py): a Flask service with    *)
(* three protected routes, /update_activity, /log_event and /license, over *)
(* three MongoDB collections (activity, roblox_logs, licenses).            *)
(*                                                                         *)
(* Every request is handled by a worker r.  A handler is cut at its store  *)
(* operations: one step is a store operation together with the local code  *)
(* that follows it up to the next store operation (or the response).  The  *)
(* local code before the first store operation (parsing, the credential    *)
(* check, validation) is the step that receives the request.               *)
(***************************************************************************)
EXTENDS Integers, Sequences, FiniteSets, TLC

(***************************************************************************)
(* Bounds of the model.                                                    *)
(***************************************************************************)
\* workers handling requests concurrently
MaxReq == 2
\* workers of the input-sweep specification SpecGate
GateReq == 1
\* the server clock runs over 0..MaxClock
MaxClock == 1

(***************************************************************************)
(* Values.  Python's None / a missing header, parameter or key is the      *)
(* empty sequence, a present value x is <<x>>.  JSON values carry their    *)
(* type.  Strings that the code parses or concatenates are sequences of    *)
(* characters; the credential strings are only compared.                   *)
(***************************************************************************)
None == <<>>
Some(x) == <<x>>
JInt(n) == [t |-> "int", v |-> n]
JStr(s) == [t |-> "str", v |-> s]
JNull == [t |-> "null"]

\* d.get(k): None when the key is missing
Get(d, k) == IF k \in DOMAIN d THEN Some(d[k]) ELSE None

\* int(s) of a string: decimal digits with an optional sign, else ValueError
DigitValue(c) ==
    CASE c = "0" -> 0 [] c = "1" -> 1 [] c = "2" -> 2 [] c = "3" -> 3
      [] c = "4" -> 4 [] c = "5" -> 5 [] c = "6" -> 6 [] c = "7" -> 7
      [] c = "8" -> 8 [] c = "9" -> 9 [] OTHER -> -1

RECURSIVE DigitsValue(_)
DigitsValue(s) ==
    IF s = <<>> THEN 0
    ELSE 10 * DigitsValue(SubSeq(s, 1, Len(s) - 1)) + DigitValue(s[Len(s)])

IsDigits(s) == Len(s) > 0 /\ \A i \in 1..Len(s) : DigitValue(s[i]) >= 0

ValueError == [cls |-> "ValueError", msg |-> <<"invalid", "literal", "for", "int()">>]
TypeError == [cls |-> "TypeError", msg |-> <<"int()", "argument", "must", "be">>]

\* int(s) of a string s: [exc, v]
IntOfString(s) ==
    IF IsDigits(s) THEN [exc |-> None, v |-> DigitsValue(s)]
    ELSE IF Len(s) > 1 /\ s[1] = "-" /\ IsDigits(Tail(s))
    THEN [exc |-> None, v |-> 0 - DigitsValue(Tail(s))]
    ELSE [exc |-> Some(ValueError), v |-> 0]

\* int(x) of a JSON value x: an int is kept, a string is parsed, None raises
\* TypeError
IntOf(x) ==
    CASE x.t = "int" -> [exc |-> None, v |-> x.v]
      [] x.t = "str" -> IntOfString(x.v)
      [] OTHER -> [exc |-> Some(TypeError), v |-> 0]

\* the configured secret
API_KEY == "KEY"
\* a credential that differs from the secret only in case
WrongKey == "key"

\* Python truthiness of an optional string: None and "" are falsy
Falsy(o) == o = None \/ o[1] = ""

\* the same of an optional string held as a sequence of characters, or of an
\* optional dict: None, "" and {} are falsy
Empty(o) == o = None \/ DOMAIN o[1] = {}

(***************************************************************************)
(* The store.  A collection is a set of documents; MongoDB keeps _id       *)
(* unique within a collection.                                             *)
(***************************************************************************)
Ids(coll) == {d._id : d \in coll}

\* the mutant of FindOne: the read misses the document
FindOneMisses(coll, id) == None

\* collection.find_one({'_id': id}): the document, or None
FindOne(coll, id) ==
    IF \E d \in coll : d._id = id
    THEN Some(CHOOSE d \in coll : d._id = id)
    ELSE None

\* what insert_one raises on an existing _id, and another failure of a store
\* operation (the connection is lost, the server refuses the write)
DuplicateKeyError ==
    [cls |-> "DuplicateKeyError",
     msg |-> <<"E11000", "duplicate", "key", "error", "collection">>]
StoreFailure ==
    [cls |-> "AutoReconnect", msg |-> <<"connection", "closed">>]
WriteError ==
    [cls |-> "WriteError",
     msg |-> <<"Cannot", "increment", "with", "non-numeric", "argument">>]

\* what Python raises on db.roblox_logs or request.json.get with None
AttributeError ==
    [cls |-> "AttributeError",
     msg |-> <<"NoneType", "object", "has", "no", "attribute">>]

\* str.lower() on the words of the messages above
Lower(w) ==
    CASE w = "E11000" -> "e11000"
      [] w = "Cannot" -> "cannot"
      [] w = "NoneType" -> "nonetype"
      [] OTHER -> w

\* the mutant of IsDuplicateKey: every failure of the insert is a duplicate
AnyFailure(e) == TRUE

\* "duplicate key" in str(e).lower()
IsDuplicateKey(e) ==
    \E i \in 1..(Len(e.msg) - 1) :
        Lower(e.msg[i]) = "duplicate" /\ Lower(e.msg[i + 1]) = "key"

\* the mutant of InsertOne: a collection that does not keep _id unique
InsertOneNoIndex(coll, doc) == [coll |-> coll \cup {doc}, exc |-> None]

\* the mutant of InsertOne: a write that replaces the document holding the _id
InsertOneReplace(coll, doc) ==
    [coll |-> {d \in coll : d._id # doc._id} \cup {doc}, exc |-> None]

\* collection.insert_one(doc): [coll, exc], the collection afterwards and the
\* exception raised, if any; an existing _id rejects the insert
InsertOne(coll, doc) ==
    IF doc._id \in Ids(coll)
    THEN [coll |-> coll, exc |-> Some(DuplicateKeyError)]
    ELSE [coll |-> coll \cup {doc}, exc |-> None]

\* the mutant of DeleteOne: nothing is deleted
DeleteNothing(coll, id) == coll

\* collection.delete_one({'_id': id})
DeleteOne(coll, id) == {d \in coll : d._id # id}

\* the mutant of UpdateOneInc: $set instead of $inc
UpdateOneSet(coll, id, amount) ==
    IF amount.t # "int"
    THEN [coll |-> coll, exc |-> Some(WriteError)]
    ELSE [coll |-> {d \in coll : d._id # id}
                     \cup {[_id |-> id, total_activity |-> amount.v]},
          exc |-> None]

\* the mutant of UpdateOneInc: the filter matches every document
UpdateManyInc(coll, id, amount) ==
    IF amount.t # "int"
    THEN [coll |-> coll, exc |-> Some(WriteError)]
    ELSE [coll |-> {[d EXCEPT !.total_activity = @ + amount.v] : d \in coll}
                     \cup (IF id \in Ids(coll)
                           THEN {}
                           ELSE {[_id |-> id, total_activity |-> amount.v]}),
          exc |-> None]

\* collection.update_one({'_id': id}, {'$inc': {'total_activity': amount}},
\* upsert=True): one atomic store operation; a non-numeric amount is refused
UpdateOneInc(coll, id, amount) ==
    IF amount.t # "int"
    THEN [coll |-> coll, exc |-> Some(WriteError)]
    ELSE IF id \in Ids(coll)
    THEN [coll |-> {IF d._id = id
                    THEN [d EXCEPT !.total_activity = @ + amount.v]
                    ELSE d : d \in coll},
          exc |-> None]
    ELSE [coll |-> coll \cup {[_id |-> id, total_activity |-> amount.v]},
          exc |-> None]

(***************************************************************************)
(* State.                                                                  *)
(***************************************************************************)
VARIABLES
    db_is_none,     \* the store handle was not initialized (lines 26-30)
    activity,       \* db.activity
    roblox_logs,    \* db.roblox_logs
    licenses,       \* db.licenses
    now,            \* the server clock, datetime.utcnow()
    req             \* per worker: the request it handles and its locals

vars == <<db_is_none, activity, roblox_logs, licenses, now, req>>

\* a worker with no request
Idle ==
    [op |-> "idle", method |-> "-", pc |-> "idle", hdr |-> None,
     args |-> None, data |-> None, loc |-> None, exc |-> None,
     status |-> 0, resp |-> None]

\* a request arrives at worker r
Arrive(r, op, method, hdr, args, data) ==
    [Idle EXCEPT !.op = op, !.method = method, !.hdr = hdr, !.args = args,
                 !.data = data]

Error(msg) == [status |-> "error", message |-> msg]

(***************************************************************************)
(* POST /update_activity                                                   *)
(***************************************************************************)
\* lines 67-87: parse, validate, check the credential, check the handle
update_activity_recv(r, hdr, data) ==
    /\ req[r].pc = "idle"
    /\ LET q == Arrive(r, "update_activity", "POST", hdr, None, data)
           Answer(status, body) ==
               req' = [req EXCEPT ![r] = [q EXCEPT !.pc = "done",
                                                   !.status = status,
                                                   !.resp = Some(body)]]
       IN  IF \/ Empty(data)
              \/ "user_id" \notin DOMAIN data[1]
              \/ "activity_minutes" \notin DOMAIN data[1]
           THEN Answer(400, Error("Invalid data"))
           ELSE IF ~(\/ Get(data[1], "api_key") = Some(API_KEY)
                     \/ hdr = Some(API_KEY))
           THEN Answer(401, Error("Invalid or missing API key"))
           ELSE IF db_is_none
           THEN Answer(503, Error("Database not available"))
           ELSE req' = [req EXCEPT ![r] =
                           [q EXCEPT !.pc = "update_one",
                                     !.loc = Some([user_id |-> data[1].user_id,
                                                   activity_minutes |->
                                                       data[1].activity_minutes])]]
    /\ UNCHANGED <<db_is_none, activity, roblox_logs, licenses, now>>

\* the mutant of update_activity_update_one: a failed write is tried again
update_activity_update_one_retry(r) ==
    /\ req[r].op = "update_activity"
    /\ req[r].pc = "update_one"
    /\ \E fault \in BOOLEAN :
         LET l == req[r].loc[1]
             res == IF fault
                    THEN [coll |-> activity, exc |-> Some(StoreFailure)]
                    ELSE UpdateOneInc(activity, l.user_id, l.activity_minutes)
         IN  /\ activity' = res.coll
             /\ IF res.exc = None
                THEN req' = [req EXCEPT ![r].pc = "done", ![r].status = 200,
                                        ![r].resp = Some([status |-> "success"])]
                ELSE req' = [req EXCEPT ![r].exc = res.exc]
    /\ UNCHANGED <<db_is_none, roblox_logs, licenses, now>>

\* lines 89-97: the upsert-increment, or the failure of the store
update_activity_update_one(r) ==
    /\ req[r].op = "update_activity"
    /\ req[r].pc = "update_one"
    /\ \E fault \in BOOLEAN :
         LET l == req[r].loc[1]
             res == IF fault
                    THEN [coll |-> activity, exc |-> Some(StoreFailure)]
                    ELSE UpdateOneInc(activity, l.user_id, l.activity_minutes)
         IN  /\ activity' = res.coll
             /\ IF res.exc = None
                THEN req' = [req EXCEPT ![r].pc = "done", ![r].status = 200,
                                        ![r].resp = Some([status |-> "success"])]
                ELSE req' = [req EXCEPT ![r].pc = "done", ![r].status = 500,
                                        ![r].exc = res.exc,
                                        ![r].resp = Some(Error(res.exc[1].msg))]
    /\ UNCHANGED <<db_is_none, roblox_logs, licenses, now>>

(***************************************************************************)
(* POST /log_event                                                         *)
(***************************************************************************)
\* hashlib.md5(s.encode()).hexdigest(): the digest stands for the string it
\* was computed from (a collision of MD5 itself is outside the model)
Md5(s) == [md5 |-> s]

\* f"{log_type}_{log_data.get('player_name', '')}_{log_data.get('message', '')}"
FingerprintString(log_type, log_data) ==
    log_type \o <<"_">>
        \o (IF "player_name" \in DOMAIN log_data THEN log_data.player_name ELSE <<>>)
        \o <<"_">>
        \o (IF "message" \in DOMAIN log_data THEN log_data.message ELSE <<>>)

InternalError == [error |-> "Internal server error"]

\* lines 101-129: the credential, the fields, the fingerprint, the entry
log_event_recv(r, hdr, data) ==
    /\ req[r].pc = "idle"
    /\ LET q == Arrive(r, "log_event", "POST", hdr, None, data)
           Answer(status, body, exc) ==
               req' = [req EXCEPT ![r] = [q EXCEPT !.pc = "done",
                                                   !.status = status,
                                                   !.exc = exc,
                                                   !.resp = Some(body)]]
           \* headers.get('X-API-Key') or request.json.get('api_key')
           api_key == IF ~Falsy(hdr) THEN hdr ELSE Get(data[1], "api_key")
       IN  IF Falsy(hdr) /\ data = None
           THEN Answer(500, InternalError, Some(AttributeError))
           ELSE IF Falsy(api_key) \/ api_key # Some(API_KEY)
           THEN Answer(401, [error |-> "Invalid API key"], None)
           ELSE IF data = None
           THEN Answer(500, InternalError, Some(AttributeError))
           ELSE
             LET log_type == Get(data[1], "log_type")
                 log_data == Get(data[1], "log_data")
                 timestamp == Get(data[1], "timestamp")
             IN  IF Empty(log_type) \/ Empty(log_data)
                 THEN Answer(400, [error |-> "Missing log_type or log_data"], None)
                 ELSE IF db_is_none
                 THEN Answer(500, InternalError, Some(AttributeError))
                 ELSE req' = [req EXCEPT ![r] =
                        [q EXCEPT
                           !.pc = "insert_one",
                           !.loc = Some(
                             [_id |-> Md5(FingerprintString(log_type[1], log_data[1])),
                              log_type |-> log_type[1],
                              log_data |-> log_data[1],
                              timestamp |-> timestamp,
                              processed |-> FALSE,
                              created_at |-> now])]]
    /\ UNCHANGED <<db_is_none, activity, roblox_logs, licenses, now>>

\* lines 131-145: the insert, the duplicate and the other failures
log_event_insert_one(r) ==
    /\ req[r].op = "log_event"
    /\ req[r].pc = "insert_one"
    /\ \E fault \in BOOLEAN :
         LET res == IF fault
                    THEN [coll |-> roblox_logs, exc |-> Some(StoreFailure)]
                    ELSE InsertOne(roblox_logs, req[r].loc[1])
             Answer(status, body) ==
                 req' = [req EXCEPT ![r].pc = "done", ![r].status = status,
                                    ![r].exc = res.exc, ![r].resp = Some(body)]
         IN  /\ roblox_logs' = res.coll
             /\ IF res.exc = None
                THEN Answer(200, [success |-> TRUE,
                                  message |-> "Log stored for processing"])
                ELSE IF IsDuplicateKey(res.exc[1])
                THEN Answer(200, [success |-> TRUE,
                                  message |-> "Duplicate log ignored"])
                ELSE Answer(500, InternalError)
    /\ UNCHANGED <<db_is_none, activity, licenses, now>>

(***************************************************************************)
(* GET, POST, DELETE /license                                              *)
(***************************************************************************)
\* datetime.isoformat()
Isoformat(t) == [iso |-> t]

\* lines 33-40, 150-165, 182-195, 212-221: the decorator's credential check,
\* the handle, the parameters
license_recv(r, method, hdr, args, data) ==
    /\ req[r].pc = "idle"
    /\ LET q == Arrive(r, "license", method, hdr, args, data)
           Answer(status, body, exc) ==
               req' = [req EXCEPT ![r] = [q EXCEPT !.pc = "done",
                                                   !.status = status,
                                                   !.exc = exc,
                                                   !.resp = Some(body)]]
           Find(l) ==
               req' = [req EXCEPT ![r] = [q EXCEPT !.pc = "find_one",
                                                   !.loc = Some(l)]]
       IN  IF Falsy(hdr) \/ hdr # Some(API_KEY)
           THEN Answer(401, Error("Invalid or missing API key"), None)
           ELSE IF db_is_none
           THEN Answer(503, Error("Database not available"), None)
           ELSE IF method \in {"GET", "DELETE"}
           THEN IF Empty(args)
                THEN Answer(400, Error("user_id parameter required"), None)
                ELSE LET user_id == IntOfString(args[1])
                     IN  IF user_id.exc = Some(ValueError)
                         THEN Answer(400, Error("Invalid user_id format"), None)
                         ELSE Find([user_id |-> user_id.v])
           ELSE IF \/ Empty(data)
                   \/ "user_id" \notin DOMAIN data[1]
                   \/ "issued_by" \notin DOMAIN data[1]
                THEN Answer(400, Error("user_id and issued_by required"), None)
                ELSE LET user_id == IntOf(data[1].user_id)
                         issued_by == IntOf(data[1].issued_by)
                     IN  IF user_id.exc = Some(ValueError)
                         THEN Answer(400, Error("Invalid user_id or issued_by format"),
                                     None)
                         ELSE IF user_id.exc # None
                         THEN Answer(500, Error("Internal server error"), user_id.exc)
                         ELSE IF issued_by.exc = Some(ValueError)
                         THEN Answer(400, Error("Invalid user_id or issued_by format"),
                                     None)
                         ELSE IF issued_by.exc # None
                         THEN Answer(500, Error("Internal server error"), issued_by.exc)
                         ELSE Find([user_id |-> user_id.v, issued_by |-> issued_by.v])
    /\ UNCHANGED <<db_is_none, activity, roblox_logs, licenses, now>>

\* lines 167-180, 198-207, 224-226: the read of the license and what follows it
license_find_one(r) ==
    /\ req[r].op = "license"
    /\ req[r].pc = "find_one"
    /\ \E fault \in BOOLEAN :
         LET l == req[r].loc[1]
             found == FindOne(licenses, l.user_id)
             Answer(status, body, exc) ==
                 req' = [req EXCEPT ![r].pc = "done", ![r].status = status,
                                    ![r].exc = exc, ![r].resp = Some(body)]
         IN  IF fault
             THEN Answer(500, Error("Internal server error"), Some(StoreFailure))
             ELSE IF req[r].method = "GET"
             THEN IF found # None
                  THEN Answer(200, [status |-> "success", has_license |-> TRUE,
                                    issued_by |-> found[1].issued_by,
                                    issued_at |-> found[1].issued_at], None)
                  ELSE Answer(200, [status |-> "success", has_license |-> FALSE],
                              None)
             ELSE IF req[r].method = "POST"
             THEN IF found # None
                  THEN Answer(409, Error("User already has a license"), None)
                  ELSE req' = [req EXCEPT
                                 ![r].pc = "insert_one",
                                 ![r].loc = Some([_id |-> l.user_id,
                                                  issued_by |-> l.issued_by,
                                                  issued_at |-> Isoformat(now)])]
             ELSE IF found = None
                  THEN Answer(404, Error("User does not have a license"), None)
                  ELSE req' = [req EXCEPT
                                 ![r].pc = "delete_one",
                                 ![r].loc = Some([user_id |-> l.user_id,
                                                  existing_license |-> found[1]])]
    /\ UNCHANGED <<db_is_none, activity, roblox_logs, licenses, now>>

\* lines 209-210, 232-234: the insert of the license
license_insert_one(r) ==
    /\ req[r].op = "license"
    /\ req[r].pc = "insert_one"
    /\ \E fault \in BOOLEAN :
         LET res == IF fault
                    THEN [coll |-> licenses, exc |-> Some(StoreFailure)]
                    ELSE InsertOne(licenses, req[r].loc[1])
         IN  /\ licenses' = res.coll
             /\ IF res.exc = None
                THEN req' = [req EXCEPT
                               ![r].pc = "done", ![r].status = 200,
                               ![r].resp = Some([status |-> "success",
                                                 message |-> "License issued successfully"])]
                ELSE req' = [req EXCEPT
                               ![r].pc = "done", ![r].status = 500,
                               ![r].exc = res.exc,
                               ![r].resp = Some(Error("Internal server error"))]
    /\ UNCHANGED <<db_is_none, activity, roblox_logs, now>>

\* lines 229-230, 232-234: the delete of the license
license_delete_one(r) ==
    /\ req[r].op = "license"
    /\ req[r].pc = "delete_one"
    /\ \E fault \in BOOLEAN :
         IF fault
         THEN /\ licenses' = licenses
              /\ req' = [req EXCEPT
                           ![r].pc = "done", ![r].status = 500,
                           ![r].exc = Some(StoreFailure),
                           ![r].resp = Some(Error("Internal server error"))]
         ELSE /\ licenses' = DeleteOne(licenses, req[r].loc[1].user_id)
              /\ req' = [req EXCEPT
                           ![r].pc = "done", ![r].status = 200,
                           ![r].resp = Some([status |-> "success",
                                             message |-> "License revoked successfully"])]
    /\ UNCHANGED <<db_is_none, activity, roblox_logs, now>>

(***************************************************************************)
(* The environment.                                                        *)
(***************************************************************************)
\* time passes
Tick ==
    /\ now < MaxClock
    /\ now' = now + 1
    /\ UNCHANGED <<db_is_none, activity, roblox_logs, licenses, req>>

\* the worker takes the next request
Recycle(r) ==
    /\ req[r].pc = "done"
    /\ req' = [req EXCEPT ![r] = Idle]
    /\ UNCHANGED <<db_is_none, activity, roblox_logs, licenses, now>>

\* the downstream bot, a separate process on the same store, marks a stored
\* entry as processed
bot_mark_processed(id) ==
    /\ \E d \in roblox_logs :
          /\ d._id = id /\ ~d.processed
          /\ roblox_logs' = (roblox_logs \ {d}) \cup {[d EXCEPT !.processed = TRUE]}
    /\ UNCHANGED <<db_is_none, activity, licenses, now, req>>

(***************************************************************************)
(* Inputs.                                                                 *)
(***************************************************************************)
\* the X-API-Key header and the body's api_key: missing, empty, wrong, right
Headers == {None, Some(""), Some(WrongKey), Some(API_KEY)}

\* the dicts with or without key k, its value drawn from vs
Opt(k, vs) == {<<>>} \cup {k :> v : v \in vs}

UserIds == {JInt(7), JInt(8)}
Minutes == {JInt(-1), JInt(1), JInt(2)}

\* authorized, well-formed activity reports, and one with a non-numeric amount
ActivityReports ==
    {[user_id |-> u, activity_minutes |-> m] :
        u \in UserIds, m \in Minutes \cup {JStr(<<"x">>)}}

\* log submissions: one log type; the player name missing with the message ""
\* or "_", or the player name "_" with the message ""; two user names, two
\* client timestamps
LogData ==
    {p @@ [message |-> m, username |-> u] :
        p \in Opt("player_name", {<<"_">>}),
        m \in {<<>>, <<"_">>},
        u \in {<<"u">>, <<"v">>}}
    \ {[player_name |-> <<"_">>, message |-> <<"_">>, username |-> u] :
          u \in {<<"u">>, <<"v">>}}
LogSubmissions ==
    {[log_type |-> <<"a">>, log_data |-> ld, timestamp |-> ts] :
        ld \in LogData, ts \in {1, 2}}

(***************************************************************************)
(* SpecActivity: MaxReq workers, each handling one activity report.        *)
(***************************************************************************)
InitStore ==
    /\ activity = {}
    /\ roblox_logs = {}
    /\ licenses = {}
    /\ now = 0

InitActivity ==
    /\ db_is_none = FALSE
    /\ InitStore
    /\ req = [r \in 1..MaxReq |-> Idle]

NextActivity ==
    \/ \E r \in DOMAIN req, d \in ActivityReports :
           update_activity_recv(r, Some(API_KEY), Some(d))
    \/ \E r \in DOMAIN req : update_activity_update_one(r)

SpecActivity == InitActivity /\ [][NextActivity]_vars

(***************************************************************************)
(* SpecLog: MaxReq workers, each handling one log submission.              *)
(***************************************************************************)
InitLog == InitActivity

NextLog ==
    \/ \E r \in DOMAIN req, d \in LogSubmissions :
           log_event_recv(r, Some(API_KEY), Some(d))
    \/ \E r \in DOMAIN req : log_event_insert_one(r)
    \/ Tick

SpecLog == InitLog /\ [][NextLog]_vars

(***************************************************************************)
(* SpecLogBot: SpecLog with the downstream bot at work on the entries.     *)
(***************************************************************************)
\* a submission, its resubmission by another user with another timestamp, and
\* a submission with another message
BotSubmissions ==
    {[log_type |-> <<"a">>,
      log_data |-> [message |-> x[1], username |-> x[2]],
      timestamp |-> x[3]] :
        x \in {<<<<>>, <<"u">>, 1>>, <<<<>>, <<"v">>, 2>>, <<<<"_">>, <<"u">>, 1>>}}

NextLogBot ==
    \/ \E r \in DOMAIN req, d \in BotSubmissions :
           log_event_recv(r, Some(API_KEY), Some(d))
    \/ \E r \in DOMAIN req : log_event_insert_one(r)
    \/ \E id \in Ids(roblox_logs) : bot_mark_processed(id)
    \/ Tick

SpecLogBot == InitLog /\ [][NextLogBot]_vars

(***************************************************************************)
(* SpecLicense: MaxReq workers handling authorized, well-formed license    *)
(* requests for one user, one request after the other, in any              *)
(* interleaving.  SpecLicenseSeq: the same, one request at a time.         *)
(***************************************************************************)
LicenseUser == <<"7">>
IssueBodies == {[user_id |-> JInt(7), issued_by |-> JInt(b)] : b \in {1, 2}}

NextLicense ==
    \/ \E r \in DOMAIN req :
           license_recv(r, "GET", Some(API_KEY), Some(LicenseUser), None)
    \/ \E r \in DOMAIN req, d \in IssueBodies :
           license_recv(r, "POST", Some(API_KEY), None, Some(d))
    \/ \E r \in DOMAIN req :
           license_recv(r, "DELETE", Some(API_KEY), Some(LicenseUser), None)
    \/ \E r \in DOMAIN req : license_find_one(r)
    \/ \E r \in DOMAIN req : license_insert_one(r)
    \/ \E r \in DOMAIN req : license_delete_one(r)
    \/ \E r \in DOMAIN req : Recycle(r)
    \/ Tick

SpecLicense == InitActivity /\ [][NextLicense]_vars

\* no request is being handled
Quiet == \A r \in DOMAIN req : req[r].pc \in {"idle", "done"}

NextLicenseSeq ==
    \/ \E r \in DOMAIN req :
           Quiet /\ license_recv(r, "GET", Some(API_KEY), Some(LicenseUser), None)
    \/ \E r \in DOMAIN req, d \in IssueBodies :
           Quiet /\ license_recv(r, "POST", Some(API_KEY), None, Some(d))
    \/ \E r \in DOMAIN req :
           Quiet /\ license_recv(r, "DELETE", Some(API_KEY), Some(LicenseUser), None)
    \/ \E r \in DOMAIN req : license_find_one(r)
    \/ \E r \in DOMAIN req : license_insert_one(r)
    \/ \E r \in DOMAIN req : license_delete_one(r)
    \/ \E r \in DOMAIN req : Recycle(r)
    \/ Tick

SpecLicenseSeq == InitActivity /\ [][NextLicenseSeq]_vars

(***************************************************************************)
(* SpecGate: GateReq workers, each handling one request drawn from every   *)
(* route, with every combination of credentials, bodies and parameters,    *)
(* the store handle initialized or not.                                    *)
(***************************************************************************)
BodyKeys == {"", WrongKey, API_KEY}

ActivityBodies ==
    {None} \cup
    {Some(k @@ u @@ m) :
        k \in Opt("api_key", BodyKeys),
        u \in Opt("user_id", {JInt(7)}),
        m \in Opt("activity_minutes", {JInt(1)})}

LogBodies ==
    {None} \cup
    {Some(k @@ t @@ ld @@ ts) :
        k \in Opt("api_key", BodyKeys),
        t \in Opt("log_type", {<<>>, <<"a">>}),
        ld \in Opt("log_data", {<<>>, [message |-> <<"_">>, username |-> <<"u">>]}),
        ts \in Opt("timestamp", {1})}

QueryArgs == {None, Some(<<>>), Some(<<"7">>), Some(<<"a">>)}

LicenseBodies ==
    {None} \cup
    {Some(k @@ u @@ b) :
        k \in Opt("api_key", {API_KEY}),
        u \in Opt("user_id", {JInt(7), JStr(<<"7">>), JStr(<<"a">>), JNull}),
        b \in Opt("issued_by", {JInt(1), JStr(<<"x">>), JNull})}

\* the collections outlive the process: a license issued before it started
PriorLicense == [_id |-> 7, issued_by |-> 1, issued_at |-> Isoformat(0)]

InitGate ==
    /\ db_is_none \in BOOLEAN
    /\ activity = {}
    /\ roblox_logs = {}
    /\ licenses \in {{}, {PriorLicense}}
    /\ now = 0
    /\ req = [r \in 1..GateReq |-> Idle]

NextGate ==
    \/ \E r \in DOMAIN req, h \in Headers, d \in ActivityBodies :
           update_activity_recv(r, h, d)
    \/ \E r \in DOMAIN req : update_activity_update_one(r)
    \/ \E r \in DOMAIN req, h \in Headers, d \in LogBodies :
           log_event_recv(r, h, d)
    \/ \E r \in DOMAIN req : log_event_insert_one(r)
    \/ \E r \in DOMAIN req, h \in Headers, a \in QueryArgs :
           license_recv(r, "GET", h, a, None)
    \/ \E r \in DOMAIN req, h \in Headers, d \in LicenseBodies :
           license_recv(r, "POST", h, None, d)
    \/ \E r \in DOMAIN req, h \in Headers, a \in QueryArgs :
           license_recv(r, "DELETE", h, a, None)
    \/ \E r \in DOMAIN req : license_find_one(r)
    \/ \E r \in DOMAIN req : license_insert_one(r)
    \/ \E r \in DOMAIN req : license_delete_one(r)
    \/ Tick

SpecGate == InitGate /\ [][NextGate]_vars

(***************************************************************************)
(* SpecFrame: MaxReq workers, each handling one request of any route, over *)
(* a store that holds records of the requests' keys and of other keys.     *)
(***************************************************************************)
FrameHeaders == {Some(WrongKey), Some(API_KEY)}

FrameActivityBodies ==
    {[user_id |-> JInt(7)],
     [user_id |-> JInt(7), activity_minutes |-> JInt(1)],
     [user_id |-> JInt(7), activity_minutes |-> JStr(<<"x">>)]}

FrameLogBodies ==
    {[log_type |-> <<"a">>],
     [log_type |-> <<"a">>,
      log_data |-> [message |-> <<"_">>, username |-> <<"u">>],
      timestamp |-> 1]}

FrameLicenseBodies ==
    {[user_id |-> JInt(7), issued_by |-> JInt(2)],
     [user_id |-> JNull, issued_by |-> JInt(2)]}

\* records written before the process started
HeldActivity(id) == [_id |-> JInt(id), total_activity |-> 5]
HeldLog(message) ==
    [_id |-> Md5(FingerprintString(<<"a">>, [message |-> message])),
     log_type |-> <<"a">>,
     log_data |-> [message |-> message, username |-> <<"v">>],
     timestamp |-> Some(0),
     processed |-> TRUE,
     created_at |-> 0]
HeldLicense(id) == [_id |-> id, issued_by |-> 1, issued_at |-> Isoformat(0)]

InitFrame ==
    /\ db_is_none \in BOOLEAN
    /\ \E own \in BOOLEAN :
          /\ activity = {HeldActivity(8)} \cup (IF own THEN {HeldActivity(7)} ELSE {})
          /\ roblox_logs = {HeldLog(<<"m">>)}
                             \cup (IF own THEN {HeldLog(<<"_">>)} ELSE {})
          /\ licenses = {HeldLicense(8)} \cup (IF own THEN {HeldLicense(7)} ELSE {})
    /\ now = 0
    /\ req = [r \in 1..MaxReq |-> Idle]

NextFrame ==
    \/ \E r \in DOMAIN req, h \in FrameHeaders, d \in FrameActivityBodies :
           update_activity_recv(r, h, Some(d))
    \/ \E r \in DOMAIN req : update_activity_update_one(r)
    \/ \E r \in DOMAIN req, h \in FrameHeaders, d \in FrameLogBodies :
           log_event_recv(r, h, Some(d))
    \/ \E r \in DOMAIN req : log_event_insert_one(r)
    \/ \E r \in DOMAIN req, h \in FrameHeaders, a \in {<<"7">>, <<"a">>} :
           license_recv(r, "GET", h, Some(a), None)
    \/ \E r \in DOMAIN req, h \in FrameHeaders, d \in FrameLicenseBodies :
           license_recv(r, "POST", h, None, Some(d))
    \/ \E r \in DOMAIN req, h \in FrameHeaders, a \in {<<"7">>, <<"a">>} :
           license_recv(r, "DELETE", h, Some(a), None)
    \/ \E r \in DOMAIN req : license_find_one(r)
    \/ \E r \in DOMAIN req : license_insert_one(r)
    \/ \E r \in DOMAIN req : license_delete_one(r)

SpecFrame == InitFrame /\ [][NextFrame]_vars

(***************************************************************************)
(* SpecServe: SpecFrame with every handler run to its end: a request that  *)
(* has been received is handled by a thread of its own, and each call to   *)
(* the store returns or raises.                                            *)
(***************************************************************************)
\* the steps of worker r after the receipt of its request
Handle(r) ==
    \/ update_activity_update_one(r)
    \/ log_event_insert_one(r)
    \/ license_find_one(r)
    \/ license_insert_one(r)
    \/ license_delete_one(r)

SpecServe ==
    /\ InitFrame
    /\ [][NextFrame]_vars
    /\ \A r \in 1..MaxReq : WF_vars(Handle(r))

(***************************************************************************)
(* Claims.                                                                 *)
(***************************************************************************)
RECURSIVE SumMinutes(_)
SumMinutes(S) ==
    IF S = {} THEN 0
    ELSE LET r == CHOOSE x \in S : TRUE
         IN  req[r].loc[1].activity_minutes.v + SumMinutes(S \ {r})

\* the completed reports for user u that were well-formed and met no store
\* failure
Applied(u) ==
    {r \in DOMAIN req :
        /\ req[r].op = "update_activity" /\ req[r].pc = "done"
        /\ req[r].loc # None /\ req[r].exc = None
        /\ req[r].loc[1].user_id = u}

\* C1: for every user, the authorized, well-formed reports completed against
\* an available store all answer 200, and the stored total_activity is the
\* sum of their minutes (the record exists exactly when there is one), in
\* every interleaving of the workers.
C1_TotalIsSum ==
    \A u \in UserIds :
        /\ \A r \in Applied(u) : req[r].status = 200
        /\ IF Applied(u) = {}
           THEN u \notin Ids(activity)
           ELSE FindOne(activity, u)
                    = Some([_id |-> u, total_activity |-> SumMinutes(Applied(u))])

\* two reports for one user have been applied, the second on top of the first
C1_Witness ==
    \E r1, r2 \in DOMAIN req :
        /\ r1 # r2
        /\ r1 \in Applied(JInt(7)) /\ r2 \in Applied(JInt(7))
        /\ req[r1].loc[1].activity_minutes = JInt(1)
        /\ req[r2].loc[1].activity_minutes = JInt(2)
        /\ FindOne(activity, JInt(7)) = Some([_id |-> JInt(7), total_activity |-> 3])

\* the log submissions that passed the credential check and the validation
\* and were completed without a failure of the store
Submitted ==
    {r \in DOMAIN req :
        /\ req[r].op = "log_event" /\ req[r].pc = "done"
        /\ req[r].loc # None /\ req[r].exc # Some(StoreFailure)}

\* (log_type, player_name, message) of a submission, '' for a missing field
Triple(r) ==
    LET e == req[r].loc[1]
    IN  <<e.log_type,
          IF "player_name" \in DOMAIN e.log_data THEN e.log_data.player_name ELSE <<>>,
          IF "message" \in DOMAIN e.log_data THEN e.log_data.message ELSE <<>>>>

Stored(r) ==
    req[r].status = 200
    /\ req[r].resp = Some([success |-> TRUE, message |-> "Log stored for processing"])
Duplicate(r) ==
    req[r].status = 200
    /\ req[r].resp = Some([success |-> TRUE, message |-> "Duplicate log ignored"])

\* C2: among the completed submissions with one (log_type, player_name,
\* message), whatever their timestamp and username, exactly one reports
\* 'stored', every other one reports 'duplicate ignored' with success, none an
\* error, and exactly one LogEntry holds their fingerprint.
C2_OneStoredPerTriple ==
    \A r \in Submitted :
        LET group == {x \in Submitted : Triple(x) = Triple(r)}
        IN  /\ Cardinality({x \in group : Stored(x)}) = 1
            /\ \A x \in group : Stored(x) \/ Duplicate(x)
            /\ Cardinality({e \in roblox_logs : e._id = req[r].loc[1]._id}) = 1

\* the same with the submissions grouped by the key the code computes; this
\* is what the store's uniqueness of _id gives
LogDedupPerKey ==
    \A r \in Submitted :
        LET group == {x \in Submitted : req[x].loc[1]._id = req[r].loc[1]._id}
        IN  /\ Cardinality({x \in group : Stored(x)}) = 1
            /\ \A x \in group : Stored(x) \/ Duplicate(x)
            /\ Cardinality({e \in roblox_logs : e._id = req[r].loc[1]._id}) = 1

\* C3: two completed submissions whose messages differ have different keys
\* and each has its own LogEntry, whatever their log_type and player_name.
C3_DistinctMessagesDistinctEntries ==
    \A r1, r2 \in Submitted :
        Triple(r1)[3] # Triple(r2)[3]
            => /\ req[r1].loc[1]._id # req[r2].loc[1]._id
               /\ \E e1, e2 \in roblox_logs :
                      /\ e1 # e2
                      /\ e1.log_data.message = Triple(r1)[3]
                      /\ e2.log_data.message = Triple(r2)[3]

\* worker r takes its insert step
InsertStep(r) ==
    /\ req[r].op = "log_event" /\ req[r].pc = "insert_one"
    /\ req'[r].pc = "done"

\* C10: an insert rejected because the key exists is answered as success
\* 'duplicate ignored'; an insert that fails otherwise is answered 500 with
\* the error body; neither stores a LogEntry.
C10_DuplicateIsSuccessOtherIsError ==
    [][\A r \in DOMAIN req :
          InsertStep(r) =>
            LET e == req'[r].exc
                key == req[r].loc[1]._id
            IN  /\ e = Some(DuplicateKeyError)
                     => /\ key \in Ids(roblox_logs)
                        /\ Duplicate(r)' /\ roblox_logs' = roblox_logs
                /\ (e # None /\ e # Some(DuplicateKeyError))
                     => /\ req'[r].status = 500
                        /\ req'[r].resp = Some(InternalError)
                        /\ roblox_logs' = roblox_logs
                /\ e = None
                     => /\ key \notin Ids(roblox_logs)
                        /\ Stored(r)' /\ roblox_logs' = roblox_logs \cup {req[r].loc[1]}
      ]_vars

\* one submission was stored, a second one with its fingerprint was answered
\* as a duplicate, with success
C10_Witness ==
    \E r1, r2 \in DOMAIN req :
        /\ r1 # r2
        /\ req[r1].pc = "done" /\ req[r1].op = "log_event" /\ Stored(r1)
        /\ req[r2].pc = "done" /\ req[r2].op = "log_event" /\ Duplicate(r2)
        /\ req[r2].exc = Some(DuplicateKeyError)
        /\ req[r1].loc[1]._id = req[r2].loc[1]._id
        /\ Cardinality(roblox_logs) = 1

\* C4: the license collection holds at most one LicenseRecord per user, in
\* every state of every interleaving of issue, query and revoke.
C4_OneLicensePerUser ==
    \A a, b \in licenses : a._id = b._id => a = b

\* two issues for the absent user raced past their existence checks: one
\* inserted, the store refused the other, one record is held
C4_Witness ==
    \E r1, r2 \in DOMAIN req :
        /\ r1 # r2
        /\ req[r1].method = "POST" /\ req[r1].pc = "done" /\ req[r1].status = 200
        /\ req[r2].method = "POST" /\ req[r2].pc = "done"
        /\ req[r2].exc = Some(DuplicateKeyError)
        /\ req[r1].loc[1].issued_by # req[r2].loc[1].issued_by
        /\ licenses = {req[r1].loc[1]}

\* worker r, handling a license request with this method, goes from pc to
\* another place without a failure of the store
LicenseStep(r, method, pc) ==
    /\ req[r].op = "license" /\ req[r].method = method /\ req[r].pc = pc
    /\ req'[r].pc # pc
    /\ req'[r].exc # Some(StoreFailure)

Licensed(u) == u \in Ids(licenses)

\* C5: one request at a time, an issue for an absent user answers success and
\* creates the record with the issued_by of the request; an issue for a
\* licensed user answers 409 and changes nothing; a record is never changed
\* while it exists.
C5_IssueThenConflict ==
    [][/\ \A r \in DOMAIN req :
            /\ LicenseStep(r, "POST", "find_one")
                 => IF Licensed(req[r].loc[1].user_id)
                    THEN /\ req'[r].pc = "done" /\ req'[r].status = 409
                         /\ licenses' = licenses
                    ELSE req'[r].pc = "insert_one" /\ licenses' = licenses
            /\ LicenseStep(r, "POST", "insert_one")
                 => /\ req'[r].pc = "done" /\ req'[r].status = 200
                    /\ ~Licensed(req[r].data[1].user_id.v)
                    /\ \E d \in licenses' :
                          /\ licenses' = licenses \cup {d}
                          /\ d._id = req[r].data[1].user_id.v
                          /\ d.issued_by = req[r].data[1].issued_by.v
       /\ \A d \in licenses, e \in licenses' : d._id = e._id => d = e
      ]_vars

\* an issue was answered 200 and its record is held, another issue for the
\* same user, with another issued_by, was answered 409
C5_Witness ==
    \E r1, r2 \in DOMAIN req :
        /\ req[r1].method = "POST" /\ req[r1].pc = "done" /\ req[r1].status = 200
        /\ req[r2].method = "POST" /\ req[r2].pc = "done" /\ req[r2].status = 409
        /\ req[r1].loc[1]._id = req[r2].loc[1].user_id
        /\ req[r1].loc[1].issued_by # req[r2].loc[1].issued_by
        /\ licenses = {req[r1].loc[1]}

\* C6: one request at a time, a revoke for a licensed user answers 200 and
\* removes the record; while the user is absent a query answers has_license
\* false and a revoke answers 404; the user stays absent until an issue
\* answers success, and an issue for the absent user does.
C6_RevokeThenAbsent ==
    [][/\ \A r \in DOMAIN req :
            /\ LicenseStep(r, "DELETE", "find_one")
                 => IF Licensed(req[r].loc[1].user_id)
                    THEN req'[r].pc = "delete_one" /\ licenses' = licenses
                    ELSE /\ req'[r].pc = "done" /\ req'[r].status = 404
                         /\ licenses' = licenses
            /\ LicenseStep(r, "DELETE", "delete_one")
                 => /\ req'[r].pc = "done" /\ req'[r].status = 200
                    /\ Licensed(req[r].loc[1].user_id)
                    /\ ~Licensed(req[r].loc[1].user_id)'
            /\ (LicenseStep(r, "GET", "find_one") /\ ~Licensed(req[r].loc[1].user_id))
                 => /\ req'[r].status = 200
                    /\ req'[r].resp = Some([status |-> "success", has_license |-> FALSE])
            /\ (LicenseStep(r, "POST", "insert_one") /\ ~Licensed(req[r].loc[1]._id))
                 => req'[r].status = 200 /\ Licensed(req[r].loc[1]._id)'
       /\ \A u \in Ids(licenses') \ Ids(licenses) :
            \E r \in DOMAIN req :
                /\ LicenseStep(r, "POST", "insert_one")
                /\ req'[r].status = 200 /\ req[r].loc[1]._id = u
      ]_vars

\* a revoke was answered 200, another revoke for the same user was answered
\* 404, and the user is absent
C6_Witness ==
    \E r1, r2 \in DOMAIN req :
        /\ req[r1].method = "DELETE" /\ req[r1].pc = "done" /\ req[r1].status = 200
        /\ req[r2].method = "DELETE" /\ req[r2].pc = "done" /\ req[r2].status = 404
        /\ req[r1].loc[1].user_id = req[r2].loc[1].user_id
        /\ ~Licensed(req[r1].loc[1].user_id)

\* C7: an authorized query with an integer user_id, the store available,
\* answers 200 with has_license true and the stored issued_by and issued_at
\* exactly when a record of the user is held at its read, has_license false
\* otherwise; no step of a query changes a collection.
C7_QueryReportsStore ==
    [][\A r \in DOMAIN req :
          /\ (LicenseStep(r, "GET", "find_one"))
               => /\ req'[r].pc = "done" /\ req'[r].status = 200
                  /\ IF \E d \in licenses : d._id = req[r].loc[1].user_id
                     THEN \E d \in licenses :
                            /\ d._id = req[r].loc[1].user_id
                            /\ req'[r].resp =
                                 Some([status |-> "success", has_license |-> TRUE,
                                       issued_by |-> d.issued_by,
                                       issued_at |-> d.issued_at])
                     ELSE req'[r].resp =
                            Some([status |-> "success", has_license |-> FALSE])
          /\ (req'[r].method = "GET" /\ req'[r] # req[r])
               => /\ UNCHANGED <<activity, roblox_logs, licenses>>
                  /\ req'[r].status \in {0, 200} \/ req'[r].exc = Some(StoreFailure)
      ]_vars

\* a query was answered with the held license, issued at a later time by the
\* second authority
C7_Witness ==
    \E r \in DOMAIN req :
        /\ req[r].method = "GET" /\ req[r].pc = "done"
        /\ licenses = {[_id |-> 7, issued_by |-> 2, issued_at |-> Isoformat(1)]}
        /\ req[r].resp = Some([status |-> "success", has_license |-> TRUE,
                               issued_by |-> 2, issued_at |-> Isoformat(1)])

\* the api_key of the body of the request of worker r
BodyKey(r) ==
    IF req[r].data = None THEN None ELSE Get(req[r].data[1], "api_key")

Answered(r) == req[r].pc = "done"

\* C8: a request to a protected route that carries the secret neither in the
\* header nor in the body is answered 401, whatever else it holds.
C8_NoSecretIs401 ==
    \A r \in DOMAIN req :
        (Answered(r) /\ req[r].hdr # Some(API_KEY) /\ BodyKey(r) # Some(API_KEY))
            => req[r].status = 401

\* C9: a report or a log submission that carries the secret in the header or
\* in the body passes the credential check, whatever the other place holds.
C9_EitherPlaceAccepted ==
    \A r \in DOMAIN req :
        (/\ Answered(r)
         /\ req[r].op \in {"update_activity", "log_event"}
         /\ (req[r].hdr = Some(API_KEY) \/ BodyKey(r) = Some(API_KEY)))
            => req[r].status # 401

\* a JSON value that int() turns into an integer
Coercible(x) == x.t = "int" \/ (x.t = "str" /\ IntOfString(x.v).exc = None)

\* the user_id (or, for an issue, the issued_by) of the license request of
\* worker r is missing or no integer
BadLicenseInput(r) ==
    IF req[r].method \in {"GET", "DELETE"}
    THEN req[r].args = None \/ IntOfString(req[r].args[1]).exc # None
    ELSE \/ req[r].data = None
         \/ "user_id" \notin DOMAIN req[r].data[1]
         \/ "issued_by" \notin DOMAIN req[r].data[1]
         \/ ~Coercible(req[r].data[1].user_id)
         \/ ~Coercible(req[r].data[1].issued_by)

\* C11: an authorized license request whose user_id or issued_by is missing
\* or not coercible to an integer is answered 400, the store handle being
\* initialized.
C11_BadIdIs400 ==
    \A r \in DOMAIN req :
        (/\ Answered(r) /\ req[r].op = "license"
         /\ req[r].hdr = Some(API_KEY) /\ ~db_is_none
         /\ BadLicenseInput(r))
            => req[r].status = 400

\* the stored total of user u in collection coll, 0 when no record is held
Total(coll, u) ==
    IF u \in Ids(coll) THEN (CHOOSE d \in coll : d._id = u).total_activity ELSE 0

\* C12 as stated: every stored total_activity is non-negative and no step
\* decreases one.
C12_NonNegativeNonDecreasing ==
    [][\A u \in UserIds :
          /\ Total(activity', u) >= 0
          /\ Total(activity', u) >= Total(activity, u)
      ]_vars

\* C12 as amended: every stored total_activity is an integer; an accepted
\* report with non-negative minutes never decreases it; it is non-negative as
\* long as every applied report of the user had non-negative minutes; no
\* other step changes it.
C12_NonDecreasingUnderNonNegativeMinutes ==
    [][\A u \in UserIds :
          /\ Total(activity', u) \in Int
          /\ (\A r \in Applied(u)' : req'[r].loc[1].activity_minutes.v >= 0)
               => Total(activity', u) >= 0
          /\ Total(activity', u) # Total(activity, u)
               => \E r \in DOMAIN req :
                     /\ req[r].pc = "update_one" /\ req'[r].pc = "done"
                     /\ req'[r].status = 200
                     /\ req[r].loc[1].user_id = u
                     /\ Total(activity', u)
                          = Total(activity, u) + req[r].loc[1].activity_minutes.v
          /\ \A r \in DOMAIN req :
                (/\ req[r].pc = "update_one" /\ req'[r].pc = "done"
                 /\ req'[r].status = 200
                 /\ req[r].loc[1].user_id = u
                 /\ req[r].loc[1].activity_minutes.v >= 0)
                    => /\ u \in Ids(activity')
                       /\ Total(activity', u) >= Total(activity, u)
      ]_vars

\* a report of -1 minute and a report of 2 minutes were applied for one user:
\* the total is 1
C12_Witness ==
    \E r1, r2 \in Applied(JInt(7)) :
        /\ req[r1].loc[1].activity_minutes = JInt(-1)
        /\ req[r2].loc[1].activity_minutes = JInt(2)
        /\ Total(activity, JInt(7)) = 1

\* the request of worker r carries everything its route requires
WellFormed(r) ==
    IF req[r].op = "update_activity"
    THEN /\ req[r].data # None
         /\ {"user_id", "activity_minutes"} \subseteq DOMAIN req[r].data[1]
    ELSE IF req[r].op = "log_event"
    THEN /\ req[r].data # None
         /\ ~Empty(Get(req[r].data[1], "log_type"))
         /\ ~Empty(Get(req[r].data[1], "log_data"))
    ELSE req[r].op = "license" /\ ~BadLicenseInput(r)

\* C13: when the store handle is not initialized, every authorized,
\* well-formed request is answered with 503 and no store operation is
\* attempted.
C13_NoHandleIs503 ==
    \A r \in DOMAIN req :
        db_is_none =>
            /\ req[r].pc \in {"idle", "done"}
            /\ (/\ Answered(r)
                /\ req[r].hdr = Some(API_KEY)
                /\ WellFormed(r))
                   => req[r].status = 503

\* every request in hand is an issue, and none met a failure of the store
\* other than the rejection of a second license for one user
OnlyIssues ==
    \A q \in DOMAIN req :
        req[q].pc # "idle" =>
            /\ req[q].op = "license" /\ req[q].method = "POST"
            /\ req[q].exc # Some(StoreFailure)

\* C14: concurrent issues for one absent user, with no revoke: every answered
\* issue is answered 200 or 409, and at most one of them 200.
C14_ConcurrentIssueOneSuccessRest409 ==
    OnlyIssues =>
        /\ \A r \in DOMAIN req : Answered(r) => req[r].status \in {200, 409}
        /\ \A r1, r2 \in DOMAIN req :
              (/\ Answered(r1) /\ Answered(r2)
               /\ req[r1].status = 200 /\ req[r2].status = 200)
                  => r1 = r2

\* every request in hand is a revoke
OnlyRevokes ==
    \A q \in DOMAIN req :
        req[q].pc # "idle" => req[q].op = "license" /\ req[q].method = "DELETE"

\* C15: concurrent revokes for one licensed user, with no issue in between: a
\* revoke that answers success has deleted a record, and a revoke whose delete
\* removed nothing answers 404.
C15_SuccessfulRevokeDeleted ==
    [][OnlyRevokes =>
          \A r \in DOMAIN req :
              LicenseStep(r, "DELETE", "delete_one") =>
                  IF Licensed(req[r].loc[1].user_id)
                  THEN req'[r].status = 200 /\ ~Licensed(req[r].loc[1].user_id)'
                  ELSE req'[r].status = 404 /\ licenses' = licenses
      ]_vars

\* C18: under any interleaving of issues and revokes for one user, the delete
\* step of a revoke removes no record but the one the revoke read at its
\* existence check.
C18_RevokeRemovesOnlyObserved ==
    [][\A r \in DOMAIN req :
          LicenseStep(r, "DELETE", "delete_one") =>
              licenses \ licenses' \subseteq {req[r].loc[1].existing_license}
      ]_vars

\* C16: the service never changes a stored LogEntry: a step of a request
\* keeps every stored entry as it is, a resubmission of a stored fingerprint
\* included, and adds only entries with a new fingerprint and processed
\* false; across every step an entry keeps its log_type, log_data, timestamp
\* and created_at, and processed never goes back to false.
C16_ServiceNeverChangesStoredEntry ==
    [][/\ req' # req =>
            /\ roblox_logs \subseteq roblox_logs'
            /\ \A e \in roblox_logs' \ roblox_logs :
                  e._id \notin Ids(roblox_logs) /\ e.processed = FALSE
       /\ \A r \in DOMAIN req :
            (InsertStep(r) /\ req[r].loc[1]._id \in Ids(roblox_logs))
                => roblox_logs' = roblox_logs
       /\ \A d \in roblox_logs :
            \E e \in roblox_logs' :
                /\ e._id = d._id
                /\ e.log_type = d.log_type /\ e.log_data = d.log_data
                /\ e.timestamp = d.timestamp /\ e.created_at = d.created_at
                /\ d.processed => e.processed
      ]_vars

\* the bot has marked an entry processed, and a resubmission of its
\* fingerprint with another timestamp, made at another time, was answered as a
\* duplicate: the entry holds the first submission's values
C16_Witness ==
    \E r \in DOMAIN req, e \in roblox_logs :
        /\ Answered(r) /\ req[r].op = "log_event" /\ Duplicate(r)
        /\ req[r].loc[1]._id = e._id
        /\ req[r].loc[1].timestamp # e.timestamp
        /\ req[r].loc[1].created_at # e.created_at
        /\ req[r].loc[1].log_data # e.log_data
        /\ e.processed

\* the documents of a collection but the one with this key
Others(coll, key) == {d \in coll : d._id # key}

\* the key of the one record the request of worker r is about
OwnKey(r) ==
    LET l == req[r].loc[1]
    IN  IF "_id" \in DOMAIN l THEN l._id ELSE l.user_id

\* C19: a step of a request changes a collection only when it ends the
\* request with status 200, and then only the collection of its route and in
\* it only the record of the request's own key; so a request answered 400,
\* 401, 404, 409, 500 or 503 has changed nothing.
C19_OnlySuccessWritesItsOwnRecord ==
    [][\A r \in DOMAIN req :
          req'[r] # req[r] =>
              IF req[r].pc # "idle" /\ Answered(r)' /\ req'[r].status = 200
              THEN /\ IF req[r].op = "update_activity"
                      THEN Others(activity', OwnKey(r)) = Others(activity, OwnKey(r))
                      ELSE activity' = activity
                   /\ IF req[r].op = "log_event"
                      THEN Others(roblox_logs', OwnKey(r))
                               = Others(roblox_logs, OwnKey(r))
                      ELSE roblox_logs' = roblox_logs
                   /\ IF req[r].op = "license"
                      THEN Others(licenses', OwnKey(r)) = Others(licenses, OwnKey(r))
                      ELSE licenses' = licenses
              ELSE /\ activity' = activity
                   /\ roblox_logs' = roblox_logs
                   /\ licenses' = licenses
      ]_vars

\* over a store holding records of users 7 and 8, a report for user 7 was
\* answered 200 and a report refused by the store was answered 500: user 7's
\* total has grown by the one report, everything else is as it was
C19_Witness ==
    \E r1, r2 \in DOMAIN req :
        /\ Answered(r1) /\ req[r1].op = "update_activity" /\ req[r1].status = 200
        /\ Answered(r2) /\ req[r2].op = "update_activity" /\ req[r2].status = 500
        /\ req[r2].exc = Some(WriteError)
        /\ activity = {[_id |-> JInt(7), total_activity |-> 6], HeldActivity(8)}
        /\ roblox_logs = {HeldLog(<<"m">>), HeldLog(<<"_">>)}
        /\ licenses = {HeldLicense(7), HeldLicense(8)}

InFlight(r) == req[r].pc \notin {"idle", "done"}

\* worker r takes the step of its write to the store
WriteStep(r) ==
    /\ req[r].pc \in {"update_one", "insert_one", "delete_one"}
    /\ req'[r] # req[r]

\* C17 as stated: a handler makes one write attempt, and a write that fails is
\* answered with an error after it.
C17_FailedWriteIsError ==
    [][\A r \in DOMAIN req :
          WriteStep(r) =>
              /\ Answered(r)'
              /\ req'[r].exc # None => req'[r].status >= 400
      ]_vars

\* C17 as amended: a handler makes one write attempt and answers after it; a
\* write that fails is answered 500, but for log_event's insert failing with
\* a 'duplicate key' message, which is answered as success; no other step of
\* the request writes; an answer is never changed; a request in hand can
\* always take its next step, whatever the other requests do, and is
\* eventually answered.
C17_OneAttemptOneAnswer ==
    /\ [][\A r \in DOMAIN req :
             /\ WriteStep(r) =>
                   /\ Answered(r)'
                   /\ req'[r].exc # None =>
                         IF req[r].op = "log_event" /\ IsDuplicateKey(req'[r].exc[1])
                         THEN Duplicate(r)'
                         ELSE req'[r].status = 500
             /\ (req'[r] # req[r] /\ ~WriteStep(r)) =>
                   /\ activity' = activity
                   /\ roblox_logs' = roblox_logs
                   /\ licenses' = licenses
             /\ Answered(r) => req'[r] = req[r]
        ]_vars
    /\ [](\A r \in 1..MaxReq : InFlight(r) => ENABLED Handle(r))
    /\ \A r \in 1..MaxReq : InFlight(r) ~> Answered(r)

\* a report whose write failed was answered 500, a log submission whose insert
\* was rejected as a duplicate was answered as success
C17_Witness ==
    \E r1, r2 \in DOMAIN req :
        /\ Answered(r1) /\ req[r1].op = "update_activity"
        /\ req[r1].exc = Some(StoreFailure) /\ req[r1].status = 500
        /\ Answered(r2) /\ req[r2].op = "log_event"
        /\ req[r2].exc = Some(DuplicateKeyError) /\ Duplicate(r2)

====
